---- MODULE Spec2Model ----
(***************************************************************************)
(* Model of fritz_log_agent: the Fritz!Box client (client.py: login,       *)
(* ensure_login, fetch_log, fetch_log_with_retry) and the agent-mode       *)
(* poller (cli.py: _run_agent with _load_state / _save_state).             *)
(*                                                                         *)
(* Strings are sequences of code points.  A datetime is the tuple          *)
(* <<year, month, day, hour, minute, second>>, compared field by field.    *)
(* The router is the environment: every HTTP response is chosen freely.    *)
(***************************************************************************)
EXTENDS Integers, Sequences, FiniteSets, TLC

VARIABLES
    pc,               \* position of the single thread of control
    sid,              \* FritzClient.sid
    info,             \* login(): the parsed login XML held between its steps
    attempt,          \* fetch_log_with_retry: 1 = first fetch_log, 2 = the retry
    loginCaller,      \* who called the running login(): "ensure" or "retry"
    slept,            \* login(): seconds slept for BlockTime in the running call
    fetchCalls,       \* calls of fetch_log in the running invocation
    loginCalls,       \* calls of login() in the running invocation
    explicitLogins,   \* calls of login() made by fetch_log_with_retry itself
    loginReqs,        \* GET requests of the running (or last) login() call
    postReqs,         \* POST requests of the running invocation
    postSid,          \* the sid the last POST carried
    sidAtCall,        \* FritzClient.sid when the invocation started
    lastLoginFirst,   \* what the last login() call parsed from its first response
    loginOutcome,     \* the last login() call: "none", "running", "returned", "raised"
    loginResult,      \* the value the last login() call returned
    exc,              \* the exception in flight, or the one that ended the last invocation
    payload,          \* fetch_log: the log payload the last POST was answered with
    cleanStreak,      \* a login has succeeded and no fetch_log has failed since
    entries,          \* the entries the last successful invocation returned
    new_entries,      \* _run_agent's new_entries
    last_timestamp,   \* _run_agent's last_timestamp
    last_signatures,  \* _run_agent's last_signatures
    state_file,       \* the state file on disk
    sink,             \* the batch handed to _emit_stdout in this iteration
    iterStart,        \* PollState and state file when this iteration began
    seen,             \* the entries the successful polls of this run have returned
    handed,           \* the (timestamp, signature) pairs handed to the sink in this run
    handedBefore      \* the pairs handed to the sink before the last restart, as far
                      \* as they are of the second the loaded state file names

vars == <<pc, sid, info, attempt, loginCaller, slept, fetchCalls, loginCalls,
          explicitLogins, loginReqs, postReqs, postSid, sidAtCall,
          lastLoginFirst, loginOutcome, loginResult, exc, payload, cleanStreak,
          entries, new_entries, last_timestamp, last_signatures, state_file, sink, iterStart,
          seen, handed, handedBefore>>

clientVars == <<sid, info, attempt, loginCaller, slept, fetchCalls, loginCalls,
                explicitLogins, loginReqs, postReqs, postSid, sidAtCall,
                lastLoginFirst, loginOutcome, loginResult, exc, payload, cleanStreak>>

pollVars == <<entries, new_entries, last_timestamp, last_signatures, state_file, sink, iterStart,
              seen, handed, handedBefore>>

---------------------------------------------------------------------------
(* Bounds of the model *)

\* longest log payload the router returns
MaxLen == 2

\* longest log payload the router returns under LiveSpec
LiveMaxLen == 1

---------------------------------------------------------------------------
(* Strings *)

\* the character "0" of _is_zero_sid
Zero == 48

\* the delimiter "|" of _entry_signature
Bar == 124

\* Python's None for FritzClient.sid
None == <<-1>>

\* an XML element that is not in the document
Absent == <<-2>>

\* a slip in _is_zero_sid: the SID is compared with one literal "0"
IsZeroSidOneLiteral(s) == s = <<Zero>>

\* _is_zero_sid: bool(sid) and set(sid) == {"0"}
IsZeroSid(s) == Len(s) > 0 /\ {s[i] : i \in DOMAIN s} = {Zero}

\* the SID texts the router sends: "", "00", "0a", "b"
SidTexts == {<<>>, <<Zero, Zero>>, <<Zero, 97>>, <<98>>}

\* the Challenge texts the router sends: "", "c"
ChallengeTexts == {<<>>, <<99>>}

\* the BlockTime texts the router sends: "0", "3", "-1", "x"
BlockTimeTexts == {<<Zero>>, <<51>>, <<45, 49>>, <<120>>}

\* int(text) on the BlockTime texts; "x" raises ValueError
IntOfText(t) ==
    CASE t = <<Zero>> -> [ok |-> TRUE, value |-> 0]
      [] t = <<51>> -> [ok |-> TRUE, value |-> 3]
      [] t = <<45, 49>> -> [ok |-> TRUE, value |-> -1]
      [] OTHER -> [ok |-> FALSE, value |-> 0]

\* a login XML document: malformed, or its three optional elements
LoginXmls ==
    [wellformed : {FALSE}, SID : {Absent}, Challenge : {Absent}, BlockTime : {Absent}]
    \cup [wellformed : {TRUE},
          SID : SidTexts \cup {Absent},
          Challenge : ChallengeTexts \cup {Absent},
          BlockTime : BlockTimeTexts \cup {Absent}]

\* root.findtext(name, default)
FindText(el, default) == IF el = Absent THEN default ELSE el

\* _parse_login_xml
ParseLoginXml(x) ==
    IF ~x.wellformed
    THEN [sid |-> <<>>, challenge |-> <<>>, blocktime |-> 0]
    ELSE LET bt == IntOfText(FindText(x.BlockTime, <<Zero>>))
         IN [sid |-> FindText(x.SID, <<>>),
             challenge |-> FindText(x.Challenge, <<>>),
             blocktime |-> IF bt.ok THEN bt.value ELSE 0]

NoInfo == [sid |-> <<>>, challenge |-> <<>>, blocktime |-> 0]

\* login() has not received a first response
NoResponse == [sid |-> None, challenge |-> None, blocktime |-> 0]

---------------------------------------------------------------------------
(* Timestamps and log entries *)

\* datetime comparison a < b, field by field
TsLess(a, b) ==
    \E i \in 1..6 : a[i] < b[i] /\ \A j \in 1..(i - 1) : a[j] = b[j]

\* strptime's %y: 69..99 are 1969..1999, 0..68 are 2000..2068
YearOf(yy) == IF yy >= 69 THEN 1900 + yy ELSE 2000 + yy

\* _parse_timestamp on a date <<dd, mm, yy>> and a time <<HH, MM, SS>> or
\* <<HH, MM>>: the format with seconds first, then the one without; any other
\* text matches neither and raises ValueError
ParseTimestamp(date, time) ==
    IF Len(date) = 3 /\ Len(time) = 3
    THEN [ok |-> TRUE,
          value |-> <<YearOf(date[3]), date[2], date[1], time[1], time[2], time[3]>>]
    ELSE IF Len(date) = 3 /\ Len(time) = 2
    THEN [ok |-> TRUE,
          value |-> <<YearOf(date[3]), date[2], date[1], time[1], time[2], 0>>]
    ELSE [ok |-> FALSE, value |-> <<>>]

\* datetime.fromtimestamp(0): the epoch in local time, here on a host whose
\* zone is UTC
Sentinel == <<1970, 1, 1, 0, 0, 0>>

\* the raw log items the router sends (date, time, group, id, msg):
\*   two texts of one second, a later day, two items whose fields differ but
\*   whose signatures agree, a date of the year 69 (older than the epoch in
\*   every time zone), an item with no date and
\*   an item whose time matches neither format
Items ==
    { [date |-> <<1, 1, 24>>, time |-> <<10, 0, 0>>, group |-> <<97>>, id |-> <<>>, msg |-> <<>>],
      [date |-> <<1, 1, 24>>, time |-> <<10, 0>>, group |-> <<97>>, id |-> <<>>, msg |-> <<>>],
      [date |-> <<2, 1, 24>>, time |-> <<10, 0, 0>>, group |-> <<97>>, id |-> <<>>, msg |-> <<>>],
      [date |-> <<1, 1, 24>>, time |-> <<10, 0, 0>>, group |-> <<Bar>>, id |-> <<>>, msg |-> <<>>],
      [date |-> <<1, 1, 24>>, time |-> <<10, 0, 0>>, group |-> <<>>, id |-> <<Bar>>, msg |-> <<>>],
      [date |-> <<1, 1, 69>>, time |-> <<10, 0, 0>>, group |-> <<97>>, id |-> <<>>, msg |-> <<>>],
      [date |-> <<>>, time |-> <<10, 0, 0>>, group |-> <<97>>, id |-> <<>>, msg |-> <<>>],
      [date |-> <<1, 1, 24>>, time |-> <<10>>, group |-> <<97>>, id |-> <<>>, msg |-> <<>>] }

\* the raw log items the router sends under LiveSpec: two days, and the item
\* whose time matches neither format
LiveItems ==
    { [date |-> <<1, 1, 24>>, time |-> <<10, 0, 0>>, group |-> <<97>>, id |-> <<>>, msg |-> <<>>],
      [date |-> <<2, 1, 24>>, time |-> <<10, 0, 0>>, group |-> <<97>>, id |-> <<>>, msg |-> <<>>],
      [date |-> <<1, 1, 24>>, time |-> <<10>>, group |-> <<97>>, id |-> <<>>, msg |-> <<>>] }

\* the log payloads of at most n of the items
Payloads(items, n) == UNION { [1..k -> items] : k \in 0..n }

\* a slip in _entries_from_payload: the ValueError of _parse_timestamp is
\* caught and the item goes on unparsed
PayloadRaisesSwallowed(items) == FALSE

\* _entries_from_payload: does an item with both texts fail to parse?
PayloadRaises(items) ==
    \E i \in DOMAIN items :
        /\ items[i].date # <<>>
        /\ items[i].time # <<>>
        /\ ~ParseTimestamp(items[i].date, items[i].time).ok

\* a slip in _entries_from_payload: break for continue, an item without a
\* date or a time ends the loop
RECURSIVE EntriesFromPayloadBreaks(_)
EntriesFromPayloadBreaks(items) ==
    IF items = <<>> THEN <<>>
    ELSE LET item == Head(items)
         IN IF item.date = <<>> \/ item.time = <<>>
            THEN <<>>
            ELSE <<[timestamp |-> ParseTimestamp(item.date, item.time).value,
                    group |-> item.group,
                    entry_id |-> item.id,
                    message |-> item.msg]>> \o EntriesFromPayloadBreaks(Tail(items))

\* _entries_from_payload: one LogEntry per item that has a date and a time
RECURSIVE EntriesFromPayload(_)
EntriesFromPayload(items) ==
    IF items = <<>> THEN <<>>
    ELSE LET item == Head(items)
             rest == EntriesFromPayload(Tail(items))
         IN IF item.date = <<>> \/ item.time = <<>>
            THEN rest
            ELSE <<[timestamp |-> ParseTimestamp(item.date, item.time).value,
                    group |-> item.group,
                    entry_id |-> item.id,
                    message |-> item.msg]>> \o rest

\* _entry_signature: f"{group}|{entry_id}|{message}"
EntrySignature(e) == e.group \o <<Bar>> \o e.entry_id \o <<Bar>> \o e.message

\* sorted(): insert e behind every element whose timestamp is not later
RECURSIVE InsertByTs(_, _)
InsertByTs(e, sorted) ==
    IF sorted = <<>> THEN <<e>>
    ELSE IF TsLess(e.timestamp, Head(sorted).timestamp)
    THEN <<e>> \o sorted
    ELSE <<Head(sorted)>> \o InsertByTs(e, Tail(sorted))

\* sorted(entries, key=lambda entry: entry.timestamp), a stable sort
RECURSIVE SortedByTs(_)
SortedByTs(es) ==
    IF es = <<>> THEN <<>>
    ELSE InsertByTs(es[Len(es)], SortedByTs(SubSeq(es, 1, Len(es) - 1)))

\* a slip in the loop body: >= for >, an entry of the last second is always new
DedupStepEmitsEqual(acc, entry) ==
    IF ~TsLess(entry.timestamp, acc.last_timestamp)
    THEN [last_timestamp |-> entry.timestamp,
          last_signatures |-> {EntrySignature(entry)},
          new_entries |-> Append(acc.new_entries, entry)]
    ELSE acc

\* a slip in the loop body: a newer entry empties last_signatures and its own
\* signature is not recorded
DedupStepForgetsSignature(acc, entry) ==
    IF TsLess(acc.last_timestamp, entry.timestamp)
    THEN [last_timestamp |-> entry.timestamp,
          last_signatures |-> {},
          new_entries |-> Append(acc.new_entries, entry)]
    ELSE IF entry.timestamp = acc.last_timestamp
            /\ EntrySignature(entry) \notin acc.last_signatures
    THEN [last_timestamp |-> acc.last_timestamp,
          last_signatures |-> acc.last_signatures \cup {EntrySignature(entry)},
          new_entries |-> Append(acc.new_entries, entry)]
    ELSE acc

\* a slip in the loop body: an entry of the last second replaces
\* last_signatures by its own signature
DedupStepKeepsOneSignature(acc, entry) ==
    IF TsLess(acc.last_timestamp, entry.timestamp)
    THEN [last_timestamp |-> entry.timestamp,
          last_signatures |-> {EntrySignature(entry)},
          new_entries |-> Append(acc.new_entries, entry)]
    ELSE IF entry.timestamp = acc.last_timestamp
            /\ EntrySignature(entry) \notin acc.last_signatures
    THEN [last_timestamp |-> acc.last_timestamp,
          last_signatures |-> {EntrySignature(entry)},
          new_entries |-> Append(acc.new_entries, entry)]
    ELSE acc

\* one pass of the loop body of _run_agent over an entry
DedupStep(acc, entry) ==
    IF TsLess(acc.last_timestamp, entry.timestamp)
    THEN [last_timestamp |-> entry.timestamp,
          last_signatures |-> {EntrySignature(entry)},
          new_entries |-> Append(acc.new_entries, entry)]
    ELSE IF entry.timestamp = acc.last_timestamp
            /\ EntrySignature(entry) \notin acc.last_signatures
    THEN [last_timestamp |-> acc.last_timestamp,
          last_signatures |-> acc.last_signatures \cup {EntrySignature(entry)},
          new_entries |-> Append(acc.new_entries, entry)]
    ELSE acc

\* the for loop of _run_agent over entries_sorted
RECURSIVE DedupLoop(_, _)
DedupLoop(acc, es) ==
    IF es = <<>> THEN acc ELSE DedupLoop(DedupStep(acc, Head(es)), Tail(es))

---------------------------------------------------------------------------
(* The state file *)

\* two and four decimal digits, zero padded
Pad2(n) == <<Zero + (n \div 10), Zero + (n % 10)>>

Pad4(n) == <<Zero + (n \div 1000), Zero + ((n \div 100) % 10)>> \o Pad2(n % 100)

\* strftime("%Y-%m-%dT%H:%M:%S")
FormatIso(ts) ==
    Pad4(ts[1]) \o <<45>> \o Pad2(ts[2]) \o <<45>> \o Pad2(ts[3]) \o <<84>>
    \o Pad2(ts[4]) \o <<58>> \o Pad2(ts[5]) \o <<58>> \o Pad2(ts[6])

\* the number written in the digits text[from..to]
RECURSIVE DigitsValue(_, _, _)
DigitsValue(text, from, to) ==
    IF to < from THEN 0
    ELSE 10 * DigitsValue(text, from, to - 1) + (text[to] - Zero)

\* datetime.strptime(text, "%Y-%m-%dT%H:%M:%S") on a text _save_state wrote
ParseIso(text) ==
    <<DigitsValue(text, 1, 4), DigitsValue(text, 6, 7), DigitsValue(text, 9, 10),
      DigitsValue(text, 12, 13), DigitsValue(text, 15, 16), DigitsValue(text, 18, 19)>>

\* string comparison a < b by code point
StrLess(a, b) ==
    \E i \in 1..Len(b) :
        /\ \A j \in 1..(i - 1) : j <= Len(a) /\ a[j] = b[j]
        /\ (i = Len(a) + 1 \/ (i <= Len(a) /\ a[i] < b[i]))

\* sorted(signatures)
RECURSIVE SortedStrs(_)
SortedStrs(S) ==
    IF S = {} THEN <<>>
    ELSE LET least == CHOOSE x \in S : \A y \in S \ {x} : StrLess(x, y)
         IN <<least>> \o SortedStrs(S \ {least})

\* no state file on disk
NoStateFile ==
    [exists |-> FALSE, json |-> FALSE, last_timestamp |-> <<>>, last_signatures |-> <<>>]

\* a state file whose write was cut short: path.write_text truncates the
\* file before it writes, and no proper prefix of the document is JSON
TornStateFile ==
    [exists |-> TRUE, json |-> FALSE, last_timestamp |-> <<>>, last_signatures |-> <<>>]

\* a slip in _save_state: only the first of the sorted signatures is written
SavedStateFirstSignature(ts, signatures) ==
    [exists |-> TRUE,
     json |-> TRUE,
     last_timestamp |-> FormatIso(ts),
     last_signatures |-> IF signatures = {} THEN <<>>
                         ELSE <<Head(SortedStrs(signatures))>>]

\* _save_state: the JSON document written to the state file
SavedState(ts, signatures) ==
    [exists |-> TRUE,
     json |-> TRUE,
     last_timestamp |-> FormatIso(ts),
     last_signatures |-> SortedStrs(signatures)]

\* _load_state: the document read, or the default when there is no file or
\* json.loads raises JSONDecodeError
LoadState(file) ==
    IF ~file.exists \/ ~file.json
    THEN [last_timestamp |-> <<>>, last_signatures |-> <<>>]
    ELSE [last_timestamp |-> file.last_timestamp,
          last_signatures |-> file.last_signatures]

\* _run_agent: last_timestamp from the loaded state
LoadedTimestamp(state) ==
    IF state.last_timestamp # <<>> THEN ParseIso(state.last_timestamp) ELSE Sentinel

\* _run_agent: last_signatures from the loaded state
LoadedSignatures(state) ==
    {state.last_signatures[i] : i \in DOMAIN state.last_signatures}

---------------------------------------------------------------------------
(* The client: FritzClient *)

\* ensure_login: not self.sid or _is_zero_sid(self.sid)
NeedsLogin(s) == s = None \/ s = <<>> \/ IsZeroSid(s)

\* the responses of the data endpoint: a network or HTTP error (or a body
\* that is no JSON), a JSON body without data.log, or a log payload
PostResponses(items, n) ==
    [kind : {"error", "shape"}, log : {<<>>}]
    \cup [kind : {"ok"}, log : Payloads(items, n)]

\* fetch_log has no payload in hand
NoPayload == [received |-> FALSE, log |-> <<>>]

\* a slip in fetch_log_with_retry: the retry is wrapped in the try as well,
\* so every failure is caught and answered with a new login
InFirstFetchAlways == TRUE

\* the exception is raised inside the first fetch_log of the invocation,
\* where the except clause of fetch_log_with_retry catches it
InFirstFetch == attempt = 1 /\ loginCaller # "retry"

\* a call of login() begins
CallLogin(caller) ==
    /\ loginCaller' = caller
    /\ payload' = NoPayload
    /\ loginCalls' = loginCalls + 1
    /\ loginReqs' = 0
    /\ slept' = 0
    /\ info' = NoInfo
    /\ loginOutcome' = "running"
    /\ loginResult' = None
    /\ lastLoginFirst' = NoResponse
    /\ pc' = "login_get1"

\* login(), lines 95-96 and 116-117: store the SID and return it
StoreAndReturn(value) ==
    /\ sid' = value
    /\ loginResult' = value
    /\ loginOutcome' = "returned"
    /\ cleanStreak' = TRUE
    /\ info' = NoInfo
    /\ pc' = "login_return"
    /\ UNCHANGED <<attempt, fetchCalls, payload>>

\* no call of login() is running: the records of the last one are dropped
NoLogin ==
    /\ slept' = 0
    /\ loginReqs' = 0
    /\ lastLoginFirst' = NoResponse
    /\ loginOutcome' = "none"
    /\ loginResult' = None

\* login() raises
LoginRaises(kind) ==
    /\ pc' = "raised"
    /\ exc' = kind
    /\ loginOutcome' = "raised"
    /\ cleanStreak' = FALSE
    /\ info' = NoInfo
    /\ UNCHANGED <<sid, loginResult, attempt, fetchCalls, payload>>

\* no invocation of fetch_log_with_retry is running: the records of the
\* calls of the last one are dropped
NoInvocation ==
    /\ NoLogin
    /\ info' = NoInfo
    /\ attempt' = 0
    /\ loginCaller' = "none"
    /\ fetchCalls' = 0
    /\ loginCalls' = 0
    /\ explicitLogins' = 0
    /\ postReqs' = 0
    /\ postSid' = None
    /\ sidAtCall' = None
    /\ payload' = NoPayload

\* cli.py line 199, client.py lines 141-143 and 125: the poller calls
\* fetch_log_with_retry, which calls fetch_log
Fetching ==
    /\ pc = "fetching"
    /\ pc' = "ensure_login"
    /\ attempt' = 1
    /\ fetchCalls' = 1
    /\ sidAtCall' = sid
    /\ exc' = "none"
    /\ UNCHANGED <<sid, info, loginCaller, slept, loginCalls, explicitLogins, loginReqs,
                   postReqs, postSid, lastLoginFirst, loginOutcome, loginResult,
                   payload, cleanStreak>>
    /\ UNCHANGED pollVars

\* ensure_login
EnsureLogin ==
    /\ pc = "ensure_login"
    /\ IF NeedsLogin(sid)
       THEN /\ CallLogin("ensure")
            /\ UNCHANGED <<sid, attempt, fetchCalls, explicitLogins, postReqs, postSid,
                           sidAtCall, exc, cleanStreak>>
       ELSE /\ pc' = "post"
            /\ UNCHANGED clientVars
    /\ UNCHANGED pollVars

\* login(), lines 86-90: the request without credentials
LoginGet1 ==
    /\ pc = "login_get1"
    /\ loginReqs' = loginReqs + 1
    /\ \E ok \in BOOLEAN, xml \in LoginXmls :
          IF ok
          THEN /\ info' = ParseLoginXml(xml)
               /\ lastLoginFirst' = info'
               /\ pc' = "login_block"
               /\ UNCHANGED <<sid, attempt, fetchCalls, loginOutcome, loginResult, exc,
                              payload, cleanStreak>>
          ELSE /\ LoginRaises("http")
               /\ UNCHANGED lastLoginFirst
    /\ UNCHANGED <<loginCaller, slept, loginCalls, explicitLogins, postReqs, postSid,
                   sidAtCall>>
    /\ UNCHANGED pollVars

\* a slip in login(): the sleep lasts BlockTime seconds, not one more
LoginBlockExactly ==
    /\ pc = "login_block"
    /\ slept' = IF info.blocktime > 0 THEN info.blocktime ELSE 0
    /\ pc' = "login_check"
    /\ UNCHANGED <<sid, info, attempt, loginCaller, fetchCalls, loginCalls,
                   explicitLogins, loginReqs, postReqs, postSid, sidAtCall,
                   lastLoginFirst, loginOutcome, loginResult, exc, payload, cleanStreak>>
    /\ UNCHANGED pollVars

\* login(), lines 91-92: the wait the router asked for
LoginBlock ==
    /\ pc = "login_block"
    /\ slept' = IF info.blocktime > 0 THEN info.blocktime + 1 ELSE 0
    /\ pc' = "login_check"
    /\ UNCHANGED <<sid, info, attempt, loginCaller, fetchCalls, loginCalls,
                   explicitLogins, loginReqs, postReqs, postSid, sidAtCall,
                   lastLoginFirst, loginOutcome, loginResult, exc, payload, cleanStreak>>
    /\ UNCHANGED pollVars

\* login(), lines 94-99: a SID that is not the zero SID is the session
LoginCheck ==
    /\ pc = "login_check"
    /\ IF ~IsZeroSid(info.sid)
       THEN StoreAndReturn(info.sid) /\ UNCHANGED exc
       ELSE IF info.challenge = <<>>
       THEN LoginRaises("missing_challenge")
       ELSE /\ pc' = "login_get2"
            /\ UNCHANGED <<sid, info, attempt, fetchCalls, loginOutcome, loginResult, exc,
                           payload, cleanStreak>>
    /\ UNCHANGED <<loginCaller, slept, loginCalls, explicitLogins, loginReqs, postReqs,
                   postSid, sidAtCall, lastLoginFirst>>
    /\ UNCHANGED pollVars

\* login(), lines 101-117: the request with the response to the challenge
\* (the router alone decides whether the response is accepted)
LoginGet2 ==
    /\ pc = "login_get2"
    /\ loginReqs' = loginReqs + 1
    /\ \E ok \in BOOLEAN, xml \in LoginXmls :
          IF ~ok
          THEN LoginRaises("http")
          ELSE IF IsZeroSid(ParseLoginXml(xml).sid)
          THEN LoginRaises("login_failed")
          ELSE StoreAndReturn(ParseLoginXml(xml).sid) /\ UNCHANGED exc
    /\ UNCHANGED <<loginCaller, slept, loginCalls, explicitLogins, postReqs, postSid,
                   sidAtCall, lastLoginFirst>>
    /\ UNCHANGED pollVars

\* login() returns to its caller: to ensure_login inside fetch_log, which
\* goes on to the POST (lines 121 and 125-127), or to fetch_log_with_retry,
\* which calls fetch_log for the second time (lines 146-147)
LoginReturn ==
    /\ pc = "login_return"
    /\ NoLogin
    /\ IF loginCaller = "ensure"
       THEN pc' = "post" /\ UNCHANGED <<attempt, fetchCalls>>
       ELSE pc' = "ensure_login" /\ attempt' = 2 /\ fetchCalls' = fetchCalls + 1
    /\ UNCHANGED <<sid, info, loginCaller, loginCalls, explicitLogins, postReqs, postSid,
                   sidAtCall, exc, payload, cleanStreak>>
    /\ UNCHANGED pollVars

\* fetch_log, lines 126-139: the authenticated request and its parsing, the
\* router answering with one of `responses`
PostOf(responses) ==
    /\ pc = "post"
    /\ postReqs' = postReqs + 1
    /\ postSid' = sid
    /\ \E resp \in responses :
          /\ payload' = IF resp.kind = "ok"
                         THEN [received |-> TRUE, log |-> resp.log]
                         ELSE NoPayload
          /\ IF resp.kind = "ok" /\ ~PayloadRaises(resp.log)
             THEN /\ entries' = EntriesFromPayload(resp.log)
                  /\ pc' = "process"
                  /\ UNCHANGED <<exc, cleanStreak>>
             ELSE /\ pc' = "raised"
                  /\ exc' = "fetch"
                  /\ cleanStreak' = FALSE
                  /\ UNCHANGED entries
    /\ UNCHANGED <<sid, info, attempt, loginCaller, slept, fetchCalls, loginCalls,
                   explicitLogins, loginReqs, sidAtCall, lastLoginFirst, loginOutcome,
                   loginResult>>
    /\ UNCHANGED <<new_entries, last_timestamp, last_signatures, state_file, sink,
                   iterStart, seen, handed, handedBefore>>

\* fetch_log, the router answering with a payload of at most MaxLen items
Post == PostOf(PostResponses(Items, MaxLen))

\* fetch_log, the router answering with a payload of at most LiveMaxLen of
\* the LiveItems
LivePost == PostOf(PostResponses(LiveItems, LiveMaxLen))

\* fetch_log_with_retry, lines 144-146: the first fetch_log raised
ExceptHandler ==
    /\ pc = "raised"
    /\ InFirstFetch
    /\ sid' = None
    /\ explicitLogins' = explicitLogins + 1
    /\ CallLogin("retry")
    /\ UNCHANGED <<attempt, fetchCalls, postReqs, postSid, sidAtCall, exc, cleanStreak>>
    /\ UNCHANGED pollVars

---------------------------------------------------------------------------
(* The poller: _run_agent *)

\* what the sink can tell one emitted entry from another by: its timestamp
\* and its signature
Pair(e) == <<e.timestamp, EntrySignature(e)>>

\* no successful poll of this run has returned an entry; `counted` says
\* whether the run started from the sentinel state
NoneSeen(counted) ==
    [counted |-> counted, any |-> FALSE, max |-> Sentinel, signatures |-> {}]

\* the record of the returned entries after a successful poll returned es:
\* the latest timestamp of all of them and the signatures of those at it
SeenAfter(s, es) ==
    IF ~s.counted \/ es = <<>> THEN s
    ELSE LET m == es[CHOOSE i \in DOMAIN es :
                        \A j \in DOMAIN es : ~TsLess(es[i].timestamp, es[j].timestamp)].timestamp
             top == IF s.any /\ ~TsLess(s.max, m) THEN s.max ELSE m
         IN [counted |-> TRUE,
             any |-> TRUE,
             max |-> top,
             signatures |->
                 (IF s.any /\ s.max = top THEN s.signatures ELSE {})
                 \cup {EntrySignature(es[i]) :
                          i \in {j \in DOMAIN es : es[j].timestamp = top}}]

\* a client as FritzClient.__init__ leaves it, with the counters of the
\* calls it has made
FreshClient ==
    /\ sid = None
    /\ info = NoInfo
    /\ attempt = 0
    /\ loginCaller = "none"
    /\ slept = 0
    /\ fetchCalls = 0
    /\ loginCalls = 0
    /\ explicitLogins = 0
    /\ loginReqs = 0
    /\ postReqs = 0
    /\ postSid = None
    /\ sidAtCall = None
    /\ lastLoginFirst = NoResponse
    /\ loginOutcome = "none"
    /\ loginResult = None
    /\ exc = "none"
    /\ payload = NoPayload
    /\ cleanStreak = FALSE

\* _run_agent, lines 188-195: the poller's state as loaded from `file`
Loaded(file) ==
    /\ last_timestamp = LoadedTimestamp(LoadState(file))
    /\ last_signatures = LoadedSignatures(LoadState(file))
    /\ entries = <<>>
    /\ new_entries = <<>>
    /\ sink = <<>>
    /\ iterStart = [last_timestamp |-> LoadedTimestamp(LoadState(file)),
                    last_signatures |-> LoadedSignatures(LoadState(file)),
                    state_file |-> file]
    /\ seen = NoneSeen(LoadedTimestamp(LoadState(file)) = Sentinel
                       /\ LoadedSignatures(LoadState(file)) = {})
    /\ handed = {}
    /\ pc = "fetching"

\* the agent starts with no state file
Init ==
    /\ state_file = NoStateFile
    /\ FreshClient
    /\ Loaded(NoStateFile)
    /\ handedBefore = {}

\* _run_agent, lines 200-201: the exception leaves fetch_log_with_retry and
\* the poller catches and logs it
Propagate ==
    /\ pc = "raised"
    /\ ~InFirstFetch
    /\ pc' = "sleep_err"
    /\ NoLogin
    /\ payload' = NoPayload
    /\ UNCHANGED <<sid, info, attempt, loginCaller, fetchCalls, loginCalls,
                   explicitLogins, postReqs, postSid, sidAtCall, exc, cleanStreak>>
    /\ UNCHANGED pollVars

\* a slip in the except clause: the exception is raised again after the sleep
\* and ends _run_agent
SleepAfterErrorExits ==
    /\ pc = "sleep_err"
    /\ pc' = "exited"
    /\ UNCHANGED clientVars
    /\ UNCHANGED pollVars

\* a slip in the except clause: no continue, the state is written on the
\* error path as well
SleepAfterErrorSaving ==
    /\ pc = "sleep_err"
    /\ pc' = "fetching"
    /\ NoInvocation
    /\ state_file' = SavedState(last_timestamp, last_signatures)
    /\ UNCHANGED <<sid, exc, cleanStreak>>
    /\ UNCHANGED <<entries, new_entries, last_timestamp, last_signatures, sink,
                   iterStart, seen, handed, handedBefore>>

\* _run_agent, lines 202-203: sleep for the interval, then poll again
SleepAfterError ==
    /\ pc = "sleep_err"
    /\ pc' = "fetching"
    /\ NoInvocation
    /\ UNCHANGED <<sid, exc, cleanStreak>>
    /\ UNCHANGED pollVars

\* a slip in _run_agent: the state is written as soon as the new entries are
\* picked, before they are handed to the sink
ProcessSavingFirst ==
    /\ pc = "process"
    /\ LET r == DedupLoop([last_timestamp |-> last_timestamp,
                           last_signatures |-> last_signatures,
                           new_entries |-> <<>>],
                          SortedByTs(entries))
       IN /\ last_timestamp' = r.last_timestamp
          /\ last_signatures' = r.last_signatures
          /\ new_entries' = r.new_entries
          /\ state_file' = SavedState(r.last_timestamp, r.last_signatures)
    /\ seen' = SeenAfter(seen, entries)
    /\ pc' = "emit"
    /\ NoInvocation
    /\ exc' = "none"
    /\ UNCHANGED <<sid, cleanStreak>>
    /\ UNCHANGED <<entries, sink, iterStart, handed, handedBefore>>

\* _run_agent, lines 205-216: sort the entries and pick the new ones
Process ==
    /\ pc = "process"
    /\ LET r == DedupLoop([last_timestamp |-> last_timestamp,
                           last_signatures |-> last_signatures,
                           new_entries |-> <<>>],
                          SortedByTs(entries))
       IN /\ last_timestamp' = r.last_timestamp
          /\ last_signatures' = r.last_signatures
          /\ new_entries' = r.new_entries
    /\ seen' = SeenAfter(seen, entries)
    /\ pc' = "emit"
    /\ NoInvocation
    /\ exc' = "none"
    /\ UNCHANGED <<sid, cleanStreak>>
    /\ UNCHANGED <<entries, state_file, sink, iterStart, handed, handedBefore>>

\* _run_agent, lines 218-219: hand the new entries to the sink, if any
\* (the snapshot files of lines 221-232 belong to the output layer)
Emit ==
    /\ pc = "emit"
    /\ sink' = IF new_entries # <<>> THEN new_entries ELSE sink
    /\ handed' = handed \cup {Pair(new_entries[i]) : i \in DOMAIN new_entries}
    /\ pc' = "save"
    /\ UNCHANGED clientVars
    /\ UNCHANGED <<entries, new_entries, last_timestamp, last_signatures, state_file,
                   iterStart, seen, handedBefore>>

\* a slip in _run_agent: _save_state is called under `if new_entries:` only
SaveStateWhenEmitted ==
    /\ pc = "save"
    /\ state_file' = IF new_entries # <<>>
                     THEN SavedState(last_timestamp, last_signatures)
                     ELSE state_file
    /\ pc' = "sleeping"
    /\ UNCHANGED clientVars
    /\ UNCHANGED <<entries, new_entries, last_timestamp, last_signatures, sink,
                   iterStart, seen, handed, handedBefore>>

\* _run_agent, line 234: _save_state
SaveState ==
    /\ pc = "save"
    /\ state_file' = SavedState(last_timestamp, last_signatures)
    /\ pc' = "sleeping"
    /\ UNCHANGED clientVars
    /\ UNCHANGED <<entries, new_entries, last_timestamp, last_signatures, sink,
                   iterStart, seen, handed, handedBefore>>

\* _run_agent, line 235: sleep for the interval, then poll again; the
\* locals of the iteration are dead from here on
Sleep ==
    /\ pc = "sleeping"
    /\ pc' = "fetching"
    /\ entries' = <<>>
    /\ new_entries' = <<>>
    /\ sink' = <<>>
    /\ iterStart' = [last_timestamp |-> last_timestamp,
                     last_signatures |-> last_signatures,
                     state_file |-> state_file]
    /\ UNCHANGED clientVars
    /\ UNCHANGED <<last_timestamp, last_signatures, state_file, seen, handed, handedBefore>>

\* main() builds a new client and _run_agent loads `file` (lines 188-195)
StartFrom(file) ==
    /\ sid' = None
    /\ cleanStreak' = FALSE
    /\ exc' = "none"
    /\ NoInvocation
    /\ last_timestamp' = LoadedTimestamp(LoadState(file))
    /\ last_signatures' = LoadedSignatures(LoadState(file))
    /\ entries' = <<>>
    /\ new_entries' = <<>>
    /\ sink' = <<>>
    /\ iterStart' = [last_timestamp |-> LoadedTimestamp(LoadState(file)),
                     last_signatures |-> LoadedSignatures(LoadState(file)),
                     state_file |-> file]
    /\ seen' = NoneSeen(LoadedTimestamp(LoadState(file)) = Sentinel
                        /\ LoadedSignatures(LoadState(file)) = {})
    /\ handed' = {}
    /\ handedBefore' = {p \in handedBefore \cup handed :
                            p[1] = LoadedTimestamp(LoadState(file))}
    /\ pc' = "fetching"

\* the process is stopped from outside, at any point, and started again
Restart ==
    /\ StartFrom(state_file)
    /\ UNCHANGED state_file

\* the process is stopped inside _save_state, between the truncation of the
\* state file and the end of the write, and started again
RestartInSave ==
    /\ pc = "save"
    /\ state_file' = TornStateFile
    /\ StartFrom(TornStateFile)

\* the steps of the program
Step ==
    \/ Fetching
    \/ EnsureLogin
    \/ LoginGet1
    \/ LoginBlock
    \/ LoginCheck
    \/ LoginGet2
    \/ LoginReturn
    \/ Post
    \/ ExceptHandler
    \/ Propagate
    \/ SleepAfterError
    \/ Process
    \/ Emit
    \/ SaveState
    \/ Sleep

Next ==
    \/ Step
    \/ Restart
    \/ RestartInSave

Spec == Init /\ [][Next]_vars

\* the steps of the program while nobody stops it, on short payloads
LiveNext ==
    \/ Fetching
    \/ EnsureLogin
    \/ LoginGet1
    \/ LoginBlock
    \/ LoginCheck
    \/ LoginGet2
    \/ LoginReturn
    \/ LivePost
    \/ ExceptHandler
    \/ Propagate
    \/ SleepAfterError
    \/ Process
    \/ Emit
    \/ SaveState
    \/ Sleep

\* the single thread of control runs on: every request, every sleep and every
\* file write completes
LiveSpec == Init /\ [][LiveNext]_vars /\ WF_vars(LiveNext)

---------------------------------------------------------------------------
(* Notions the claims use *)

\* a text composed entirely of the character "0"
AllZeroText(s) == s # <<>> /\ \A i \in DOMAIN s : s[i] = Zero

\* a session identifier that authorises requests
ValidSid(s) == s # None /\ s # <<>> /\ ~AllZeroText(s)

\* login() is between its call and its return or raise
InLogin == pc \in {"login_get1", "login_block", "login_check", "login_get2"}

\* the iteration has processed the fetched entries
Processed == pc \in {"emit", "save", "sleeping"}

\* entries[i] repeats the timestamp and the signature of an earlier entry
IsRepeat(es, i) ==
    \E j \in 1..(i - 1) :
        /\ es[j].timestamp = es[i].timestamp
        /\ EntrySignature(es[j]) = EntrySignature(es[i])

\* the entries of es at the indices Q, by timestamp and then by index
RECURSIVE InOrder(_, _)
InOrder(es, Q) ==
    IF Q = {} THEN <<>>
    ELSE LET m == CHOOSE i \in Q :
                     \A j \in Q \ {i} :
                         \/ TsLess(es[i].timestamp, es[j].timestamp)
                         \/ es[i].timestamp = es[j].timestamp /\ i < j
         IN <<es[m]>> \o InOrder(es, Q \ {m})

\* the batch a poll owes the sink: the first occurrence of each (timestamp,
\* signature) among the entries later than L, or at L with a signature not in S
ExpectedBatch(L, S, es) ==
    InOrder(es, {i \in DOMAIN es :
                    /\ \/ TsLess(L, es[i].timestamp)
                       \/ es[i].timestamp = L /\ EntrySignature(es[i]) \notin S
                    /\ ~IsRepeat(es, i)})

\* the latest timestamp of a non-empty list of entries
MaxTimestamp(es) ==
    (CHOOSE i \in DOMAIN es :
        \A j \in DOMAIN es : ~TsLess(es[i].timestamp, es[j].timestamp))

\* the seconds login() owes the router for a BlockTime of b
OwedWait(b) == IF b > 0 THEN b + 1 ELSE 0

\* a raw item with a date and a time that match neither format
Malformed(item) ==
    /\ item.date # <<>>
    /\ item.time # <<>>
    /\ ~(Len(item.date) = 3 /\ Len(item.time) \in {2, 3})

\* the indices of the raw items that have a date and a time
Kept(log) == {i \in DOMAIN log : log[i].date # <<>> /\ log[i].time # <<>>}

\* the entry e is the raw item, field by field
EntryOfItem(e, item) ==
    /\ e.group = item.group
    /\ e.entry_id = item.id
    /\ e.message = item.msg
    /\ e.timestamp[3] = item.date[1]
    /\ e.timestamp[2] = item.date[2]
    /\ e.timestamp[1] % 100 = item.date[3]
    /\ e.timestamp[4] = item.time[1]
    /\ e.timestamp[5] = item.time[2]
    /\ e.timestamp[6] = (IF Len(item.time) = 3 THEN item.time[3] ELSE 0)

\* the (timestamp, signature) pairs the state file records
FilePairs ==
    {<<LoadedTimestamp(LoadState(state_file)), state_file.last_signatures[i]>> :
        i \in DOMAIN state_file.last_signatures}

---------------------------------------------------------------------------
(* Claims *)

\* C1: one invocation of fetch_log_with_retry calls fetch_log at most twice
\* (one POST each at most) and login() at most once by itself; the second
\* fetch_log comes only after that re-login, during which the cached sid is
\* None; a failure of the re-login or of the second fetch_log is not caught
\* again but reaches the caller, and only such a failure does.
C1_AtMostTwoFetches ==
    /\ fetchCalls <= 2
    /\ postReqs <= fetchCalls
    /\ explicitLogins <= 1
    /\ fetchCalls = 2 => explicitLogins = 1
    /\ (InLogin /\ loginCaller = "retry") => (sid = None /\ fetchCalls = 1)
    /\ (pc = "raised" /\ explicitLogins = 0) => ENABLED ExceptHandler
    /\ (pc = "raised" /\ explicitLogins = 1) => (ENABLED Propagate /\ ~ENABLED ExceptHandler)
    /\ pc = "sleep_err" => (exc # "none" /\ explicitLogins = 1)

\* C1 witness: the retried fetch_log failed as well and the failure reached
\* the poller after two POSTs
C1_Witness ==
    pc = "sleep_err" /\ fetchCalls = 2 /\ postReqs = 2 /\ explicitLogins = 1 /\ exc = "fetch"

\* C2: the poller has no terminal state behind a fetch failure: a failure that
\* reaches the poller is followed by the sleep and then by the next fetch, and
\* the poller is in FETCHING again and again.
C2_PollerReturnsToFetching ==
    /\ (pc = "raised") ~> (pc = "fetching")
    /\ (pc = "sleep_err") ~> (pc = "fetching")
    /\ []<>(pc = "fetching")

\* C2 witness: the poller is back in FETCHING after an invocation whose
\* re-login the router rejected
C2_Witness == pc = "fetching" /\ exc = "login_failed"

\* C3: after a successful poll from (L, S) the batch is, by timestamp and then
\* by payload order, the first occurrence of each (timestamp, signature) among
\* the fetched entries later than L or at L with a signature not in S, and
\* that batch is what the sink is handed.
C3_BatchIsTheNewEntries ==
    Processed =>
        /\ new_entries = ExpectedBatch(iterStart.last_timestamp,
                                       iterStart.last_signatures, entries)
        /\ \A i \in DOMAIN new_entries :
               ~TsLess(new_entries[i].timestamp, iterStart.last_timestamp)
        /\ pc # "emit" => sink = new_entries

\* C3 witness: of two fetched entries of the second L, the one whose signature
\* is in S is dropped and the other is handed to the sink
C3_Witness ==
    /\ pc = "save"
    /\ Len(entries) = 2
    /\ Len(sink) = 1
    /\ entries[1].timestamp = iterStart.last_timestamp
    /\ entries[2].timestamp = iterStart.last_timestamp
    /\ EntrySignature(entries[1]) \in iterStart.last_signatures
    /\ sink[1] = entries[2]

\* C4: once a batch has been processed, processing the same batch again emits
\* nothing and leaves last_timestamp and last_signatures as they are.
C4_ReplayEmitsNothing ==
    Processed =>
        DedupLoop([last_timestamp |-> last_timestamp,
                   last_signatures |-> last_signatures,
                   new_entries |-> <<>>],
                  SortedByTs(entries))
        = [last_timestamp |-> last_timestamp,
           last_signatures |-> last_signatures,
           new_entries |-> <<>>]

\* C4 witness: the first pass emitted two entries of one second and moved
\* last_timestamp
C4_Witness ==
    /\ pc = "save"
    /\ Len(new_entries) = 2
    /\ new_entries[1].timestamp = new_entries[2].timestamp
    /\ last_timestamp # iterStart.last_timestamp

\* C5 as stated: from the sentinel state a successful poll emits every fetched
\* entry but the repeats of a (timestamp, signature), and last_timestamp is
\* then the latest timestamp of the batch.
C5_FirstPollEmitsAll ==
    (/\ Processed
     /\ iterStart.last_timestamp = Sentinel
     /\ iterStart.last_signatures = {}
     /\ entries # <<>>) =>
        /\ new_entries = InOrder(entries, {i \in DOMAIN entries : ~IsRepeat(entries, i)})
        /\ last_timestamp = entries[MaxTimestamp(entries)].timestamp

\* C6: an iteration whose fetch_log_with_retry fails leaves last_timestamp,
\* last_signatures and the state file as they were and hands nothing to the
\* sink, up to the next fetch.
C6_FailedIterationChangesNothing ==
    (pc \in {"raised", "sleep_err"} \/ (pc = "fetching" /\ exc # "none")) =>
        /\ last_timestamp = iterStart.last_timestamp
        /\ last_signatures = iterStart.last_signatures
        /\ state_file = iterStart.state_file
        /\ sink = <<>>

\* C6 witness: a failed iteration is over, after an earlier one had advanced
\* and saved the state
C6_Witness ==
    /\ pc = "fetching"
    /\ exc = "fetch"
    /\ state_file.exists
    /\ last_timestamp # Sentinel

\* C7 as stated: an invocation that starts with a valid cached SID calls
\* login() at most once, the re-login after its first fetch_log failed, and
\* fetches at most once more.
C7_OneReLogin ==
    (attempt >= 1 /\ ValidSid(sidAtCall)) =>
        /\ loginCalls <= 1
        /\ loginCalls = explicitLogins
        /\ fetchCalls <= 1 + explicitLogins

\* C8 as stated: ensure_login calls login() only when no SID is cached or the
\* cached one is the zero SID, and never once a login has succeeded and no
\* fetch has failed since.
C8_NoLoginWhileSidCached ==
    (InLogin /\ loginCaller = "ensure") =>
        /\ sid = None \/ AllZeroText(sid)
        /\ ~cleanStreak

\* C9 as stated: a first login response with no valid SID and no Challenge
\* ends login() with the missing-challenge error, after one request, with
\* nothing returned and the cached sid as it was when login() was called.
C9_MissingChallengeRaises ==
    (/\ loginOutcome \in {"returned", "raised"}
     /\ lastLoginFirst.sid # None
     /\ ~ValidSid(lastLoginFirst.sid)
     /\ lastLoginFirst.challenge = <<>>) =>
        /\ loginOutcome = "raised"
        /\ exc = "missing_challenge"
        /\ loginReqs = 1
        /\ loginResult = None
        /\ ~ValidSid(sid)

\* C10: when the first response of login() carries a SID that is not the zero
\* SID, login() stores and returns that SID after one request; the zero SID
\* is never stored and never returned, and a first response that carries it
\* leads to the second request.
C10_FirstSidIsTheSession ==
    /\ ~AllZeroText(sid)
    /\ ~AllZeroText(loginResult)
    /\ loginOutcome = "returned" => sid = loginResult
    /\ (loginOutcome = "returned" /\ ~AllZeroText(lastLoginFirst.sid)) =>
           (loginResult = lastLoginFirst.sid /\ loginReqs = 1)
    /\ (loginOutcome = "returned" /\ AllZeroText(lastLoginFirst.sid)) => loginReqs = 2

\* C10 witness: login() returned the SID "0a" of its first response after one
\* request
C10_Witness ==
    /\ pc = "login_return"
    /\ lastLoginFirst.sid = <<Zero, 97>>
    /\ sid = <<Zero, 97>>
    /\ loginResult = <<Zero, 97>>
    /\ loginReqs = 1

\* C11: once login() has its first response it sleeps BlockTime + 1 seconds
\* when BlockTime > 0 and not at all otherwise, before it does anything else:
\* it has not slept before the response, and the second request is sent only
\* after the one first request and the whole wait.
C11_BlockTimeWait ==
    /\ pc \in {"login_get1", "login_block"} => slept = 0
    /\ pc = "login_block" => loginReqs = 1
    /\ pc \in {"login_check", "login_get2", "login_return"} =>
           slept = OwedWait(lastLoginFirst.blocktime)
    /\ pc = "login_get2" => loginReqs = 1
    /\ loginReqs = 2 => slept = OwedWait(lastLoginFirst.blocktime)

\* C11 witness: the first response said BlockTime 3 and the zero SID, and
\* login() has slept 4 seconds when it is about to send the second request
C11_Witness ==
    /\ pc = "login_get2"
    /\ lastLoginFirst.blocktime = 3
    /\ slept = 4
    /\ loginReqs = 1

\* C12: when the POST is answered with a payload in which an item with a date
\* and a time matches neither format, fetch_log raises and returns no entry,
\* nothing of the payload reaches the sink, and last_timestamp,
\* last_signatures and the state file are as the iteration found them.
C12_FetchAllOrNothing ==
    (payload.received /\ \E i \in DOMAIN payload.log : Malformed(payload.log[i])) =>
        /\ pc = "raised"
        /\ exc = "fetch"
        /\ entries = <<>>
        /\ new_entries = <<>>
        /\ sink = <<>>
        /\ last_timestamp = iterStart.last_timestamp
        /\ last_signatures = iterStart.last_signatures
        /\ state_file = iterStart.state_file

\* C12 witness: a payload of a well-formed item that would be new and a
\* malformed one made fetch_log raise
C12_Witness ==
    /\ pc = "raised"
    /\ payload.received
    /\ Len(payload.log) = 2
    /\ Kept(payload.log) = {1, 2}
    /\ ~Malformed(payload.log[1])
    /\ Malformed(payload.log[2])
    /\ TsLess(last_timestamp, <<2000 + payload.log[1].date[3], payload.log[1].date[2],
                                payload.log[1].date[1], 0, 0, 0>>)

\* C13: when fetch_log returns, its entries are the raw items that have a
\* date and a time, one entry each, in payload order and field by field, with
\* repeats kept; the other items are left out.
C13_OneEntryPerDatedItem ==
    pc = "process" =>
        /\ payload.received
        /\ Len(entries) = Cardinality(Kept(payload.log))
        /\ \A i \in Kept(payload.log) :
               EntryOfItem(entries[Cardinality({j \in Kept(payload.log) : j <= i})],
                           payload.log[i])

\* C13 witness: a payload of the same item twice came back as two equal
\* entries
C13_Witness ==
    /\ pc = "process"
    /\ Len(payload.log) = 2
    /\ payload.log[1] = payload.log[2]
    /\ Len(entries) = 2
    /\ entries[1] = entries[2]

\* C14: at every sleep that follows a successful poll the state file exists,
\* is a JSON document, and records last_timestamp (as a text of 19 characters)
\* and last_signatures (each once) as they are in memory.
C14_StatePersistedBeforeSleep ==
    pc = "sleeping" =>
        /\ state_file.exists
        /\ state_file.json
        /\ Len(state_file.last_timestamp) = 19
        /\ ParseIso(state_file.last_timestamp) = last_timestamp
        /\ Len(state_file.last_signatures) = Cardinality(last_signatures)
        /\ {state_file.last_signatures[i] : i \in DOMAIN state_file.last_signatures}
               = last_signatures

\* C14 witness: a poll that returned an entry and emitted nothing is asleep
\* with its state written
C14_Witness ==
    /\ pc = "sleeping"
    /\ entries # <<>>
    /\ new_entries = <<>>
    /\ sink = <<>>
    /\ state_file = SavedState(last_timestamp, last_signatures)

\* C15 as stated: in a run that started from the sentinel state, once a poll
\* has returned an entry, last_timestamp at the end of an iteration is the
\* latest timestamp of all returned entries and last_signatures the set of the
\* signatures of the returned entries of that timestamp.
C15_StateIsLatestSeen ==
    (pc \in {"sleeping", "sleep_err", "fetching"} /\ seen.counted /\ seen.any) =>
        /\ last_timestamp = seen.max
        /\ last_signatures = seen.signatures

\* C16: the batch about to be handed to the sink holds no (timestamp,
\* signature) pair that this run has handed to it before, and none twice.
C16_NoPairHandedTwice ==
    pc = "emit" =>
        \A i \in DOMAIN new_entries :
            /\ Pair(new_entries[i]) \notin handed
            /\ \A j \in DOMAIN new_entries :
                   j # i => Pair(new_entries[j]) # Pair(new_entries[i])

\* C16 witness: a later poll returned an entry the run had handed to the sink
\* together with a new one, and only the new one is in the batch
C16_Witness ==
    /\ pc = "emit"
    /\ Len(entries) = 2
    /\ Len(new_entries) = 1
    /\ \E i \in DOMAIN entries : Pair(entries[i]) \in handed
    /\ Pair(new_entries[1]) \notin handed

\* C17 as stated: every POST of fetch_log carries a SID that is neither empty
\* nor the zero SID.
C17_PostCarriesValidSid == postReqs > 0 => ValidSid(postSid)

\* C18: every (timestamp, signature) pair the state file records has been
\* handed to the sink, in this run or before the restart, and when the state is
\* about to be written the batch of the iteration has been handed over.
C18_StateNeverAheadOfSink ==
    /\ FilePairs \subseteq (handed \cup handedBefore)
    /\ pc = "save" => \A i \in DOMAIN new_entries : Pair(new_entries[i]) \in handed
    /\ pc \in {"process", "emit"} => state_file = iterStart.state_file

\* C18 witness: the process was stopped between emit and save, and the
\* restarted run has handed the same pair to the sink again, which the state
\* file does not record yet
C18_Witness ==
    /\ pc = "save"
    /\ new_entries # <<>>
    /\ Pair(new_entries[1]) \in handedBefore
    /\ Pair(new_entries[1]) \in handed
    /\ Pair(new_entries[1]) \notin FilePairs

\* C19: a step from the sleep after a successful poll to the next fetch, by
\* the end of the sleep or by a stop and restart from the state file, leaves
\* last_timestamp and last_signatures as they were and the poller with nothing
\* else in hand, so the next batches are those of the uninterrupted run.
C19_RestartFromSleepIsInvisible ==
    [][(pc = "sleeping" /\ pc' = "fetching") =>
          /\ last_timestamp' = last_timestamp
          /\ last_signatures' = last_signatures
          /\ state_file' = state_file
          /\ entries' = <<>>
          /\ new_entries' = <<>>
          /\ sink' = <<>>
          /\ iterStart' = [last_timestamp |-> last_timestamp,
                           last_signatures |-> last_signatures,
                           state_file |-> state_file]]_vars

\* C19 witness: a run restarted from a state file that records two
\* signatures of one second is about to fetch
C19_Witness ==
    /\ pc = "fetching"
    /\ sid = None
    /\ exc = "none"
    /\ state_file.exists
    /\ Cardinality(last_signatures) = 2
    /\ state_file = SavedState(last_timestamp, last_signatures)

====
